---- MODULE Spec2Model ----
(***************************************************************************)
(* Order lifecycle of the d-frames back office: the two Express servers    *)
(* (server.js and server/server.js), the admin orders view that writes to  *)
(* the record store directly, and the store's own schema rules.            *)
(***************************************************************************)
EXTENDS Integers, Sequences, FiniteSets, TLC

\* ------------------------------------------------------------------ bounds
\* MaxOps: the mutating calls (requests to the servers, writes of the view)
MaxOps == 2

\* MaxLogins: the login requests sent
MaxLogins == 7

\* MaxRows: the orders of the table that is listed
MaxRows == 4

\* MaxIntents: the payment intents created
MaxIntents == 3

\* MaxAddresses: the rows of shipping_addresses
MaxAddresses == 3

\* ------------------------------------------------------------------ values
OrderIds == {1, 2}

NULL == "NULL"

\* updated_by is a nullable employee reference; 0 stands for SQL NULL
NoEmployee == 0

\* server.js: const validStatuses = [...]
validStatuses == {"pending", "processing", "shipped", "delivered", "cancelled"}

\* a body field that is missing (undefined) or the empty string: the
\* handlers treat the two alike, both are falsy
Missing == ""

\* JavaScript !x for the strings a body field can hold
Falsy(x) == x = Missing

\* status tokens a caller may put in the request body; "refunded" is a
\* token outside the enumeration
StatusTokens == validStatuses \cup {"refunded", Missing}

\* carrier / tracking_number / tracking_url of a request body
Carriers == {Missing, "UPS"}

TrackingNumbers == {Missing, "1Z999"}

TrackingUrls == {Missing, "http://trk"}

\* the employees table: id -> name, role
Employees == {1, 2, 3, 4}

employeeRole(e) ==
  CASE e = 1 -> "admin"
    [] e = 2 -> "manager"
    [] e = 4 -> "manager"
    [] OTHER -> "support"

employeeName(e) ==
  CASE e = 1 -> "Ada"
    [] e = 2 -> "Max"
    [] e = 4 -> "Bob"
    [] OTHER -> "Sue"

\* what a request presents: 0 no token, -1 a token jwt.verify rejects,
\* e > 0 a token signed at login for employee e
NoToken == 0

BadToken == -1

\* the tokens the request gate is tried with: none, a bad one, and one
\* employee of each role
Tokens == {NoToken, BadToken, 1, 2, 3}

\* the two server programs of the repository
Impls == {"root", "server"}

Slots == {1, 2}

VARIABLES
  orders,     \* the orders table: id -> row
  history,    \* the order_history table, in insertion order
  histSeq,    \* number of rows ever inserted into order_history
  rq,         \* the requests the servers are handling: slot -> request
  view,       \* the admin view's local list: id -> displayed status
  clock,      \* the time new Date() and now() last returned
  ops,        \* number of mutating calls started
  list,       \* OrdersView: the orders state, a list of rows
  filter,     \* OrdersView: the status filter selected
  feed,       \* realtime: the postgres_changes events in the channel
  task,       \* OrdersView: its async calls waiting at an await
  loginAttempts,  \* server/server.js: let loginAttempts = {}
  callers,    \* the login attempts made so far, by caller IP
  listing,    \* the last answer of GET /api/orders
  checkout,   \* the checkout page of each customer
  intents,    \* the payment intents created, each with its customer
  addresses,  \* the shipping_addresses table
  saving      \* the address calls waiting at an await

\* the state of the live orders view and its realtime channel
liveVars == <<list, filter, feed, task>>

\* the state of the login route and of its callers
loginVars == <<loginAttempts, callers>>

\* the state of the checkout
checkoutVars == <<checkout, intents>>

\* the state of the address book
addressVars == <<addresses, saving>>

\* what the order lifecycle leaves alone
aside == <<liveVars, loginVars, listing, checkoutVars, addressVars>>

\* what the live view leaves alone
asideView == <<loginVars, listing, checkoutVars, addressVars>>

\* the state of the order lifecycle
lifecycle == <<orders, history, histSeq, rq, view, clock, ops>>

vars == <<orders, history, histSeq, rq, view, clock, ops, list, filter, feed,
          task, loginAttempts, callers, listing, checkout, intents,
          addresses, saving>>

\* payment_id is a nullable reference to a payment; 0 stands for SQL NULL
NoPayment == 0

\* ------------------------------------------------------------ the store
\* a row of public.orders as the lifecycle sees it; row is "none" before the
\* order is inserted, "live" while it exists, "gone" once deleted
NoRow ==
  [row |-> "none", status |-> "pending", shipping_carrier |-> NULL,
   tracking_number |-> NULL, tracking_url |-> NULL,
   updated_at |-> 0, updated_by |-> NoEmployee,
   customer_name |-> NULL, payment_id |-> NoPayment]

\* INSERT with status 'pending'; the tracking columns default to NULL and
\* updated_at to now()
NewOrderRow(now) ==
  [NoRow EXCEPT !.row = "live", !.updated_at = now, !.customer_name = "Ann"]

GoneRow == [NoRow EXCEPT !.row = "gone"]

Live(o) == orders[o].row = "live"

\* the orders table without its CHECK on status
OrdersStatusUnchecked(status) == TRUE

\* orders.status CHECK (status IN (...))
OrdersStatusCheck(status) ==
  status \in {"pending", "processing", "shipped", "delivered", "cancelled"}

\* an update that resets the columns it does not name
ApplyPatchReplace(row, patch) ==
  [c \in DOMAIN row |->
     IF c \in DOMAIN patch THEN patch[c]
     ELSE IF c = "row" THEN row[c] ELSE NoRow[c]]

\* UPDATE orders SET <patch>: the named columns change, the others stay
ApplyPatch(row, patch) ==
  [c \in DOMAIN row |-> IF c \in DOMAIN patch THEN patch[c] ELSE row[c]]

\* the columns of order_history and those declared NOT NULL
OrderHistoryColumns ==
  {"id", "order_id", "status", "employee_id", "employee_name",
   "employee_role", "notes", "created_at"}

OrderHistoryNotNull ==
  {"order_id", "status", "employee_id", "employee_name", "employee_role"}

\* whether the store takes an INSERT INTO order_history of this row: every
\* column must exist, every NOT NULL column must be given, and order_id
\* REFERENCES orders(id)
InsertAccepted(row) ==
  /\ DOMAIN row \subseteq OrderHistoryColumns
  /\ OrderHistoryNotNull \subseteq DOMAIN row
  /\ Live(row.order_id)

\* the row as stored: id is generated, created_at DEFAULT NOW() is the time
\* of the insert, which the store hands out in insertion order; NULL notes
\* are the empty sequence
StoredRow(row, n) ==
  [id |-> n, order_id |-> row.order_id, status |-> row.status,
   employee_id |-> row.employee_id, employee_name |-> row.employee_name,
   employee_role |-> row.employee_role,
   notes |-> IF "notes" \in DOMAIN row THEN row.notes ELSE <<>>,
   created_at |-> n]

\* a delete that takes the whole history with it
CascadeDeleteAll(h, o) == <<>>

\* ON DELETE CASCADE: the history rows of a deleted order go with it
CascadeDelete(h, o) == SelectSeq(h, LAMBDA e : e.order_id # o)

\* ------------------------------------------------------------ middleware
\* authenticateEmployee: a token must be present and jwt.verify must accept
\* it; the result is the status it answers with, 0 when it calls next()
authenticateEmployee(token) ==
  IF token = NoToken THEN 401
  ELSE IF token \notin Employees THEN 401
  ELSE 0

\* a slip in the authorisation: the role is not looked at
authorizeRoleAnyRole(allowedRoles, token) ==
  IF token \notin Employees THEN 401 ELSE 0

\* authorizeRole(allowedRoles), run after authenticateEmployee
authorizeRole(allowedRoles, token) ==
  IF token \notin Employees THEN 401
  ELSE IF employeeRole(token) \in allowedRoles THEN 0
  ELSE 403

\* the middleware chain of the two mutating routes
MutatingRoles == {"admin", "manager"}

Middleware(token) ==
  IF authenticateEmployee(token) # 0 THEN authenticateEmployee(token)
  ELSE authorizeRole(MutatingRoles, token)

\* the read routes of server.js: authorizeRole(['admin', 'manager',
\* 'support']); those of server/server.js run authenticateEmployee only
ReadRolesManagersOnly == {"admin", "manager"}

ReadRoles == {"admin", "manager", "support"}

ReadMiddleware(impl, token) ==
  IF authenticateEmployee(token) # 0 THEN authenticateEmployee(token)
  ELSE IF impl = "root" THEN authorizeRole(ReadRoles, token)
  ELSE 0

\* ------------------------------------------------------------- requests
\* a request in a slot: pc is "idle" (no request), "update" (past the
\* middleware and the validation, orders update sent), "insert" (orders
\* update done, order_history insert sent) or "reply" (answered with code);
\* logged tells whether the handler has written a line with console.error
IdleReq ==
  [pc |-> "idle", impl |-> "root", op |-> "status", id |-> 1,
   token |-> NoToken, status |-> Missing, carrier |-> Missing,
   tracking_number |-> Missing, tracking_url |-> Missing, ts |-> 0,
   code |-> 0, logged |-> FALSE, notes |-> Missing]

StatusReq(impl, id, token, status) ==
  [IdleReq EXCEPT !.impl = impl, !.op = "status", !.id = id,
                  !.token = token, !.status = status]

TrackingReq(impl, id, token, carrier, tracking_number, tracking_url) ==
  [IdleReq EXCEPT !.impl = impl, !.op = "tracking", !.id = id,
                  !.token = token, !.carrier = carrier,
                  !.tracking_number = tracking_number,
                  !.tracking_url = tracking_url]

\* a validation that refuses to set an order back to 'pending'
StatusValidNotPending(impl, status) == status \in validStatuses \ {"pending"}

\* validation of the status route: server.js checks membership in
\* validStatuses, server/server.js only that a status is given
StatusValid(impl, status) ==
  IF impl = "root" THEN status \in validStatuses ELSE ~Falsy(status)

\* a slip in the validation: && where the code has ||
TrackingValidAnd(carrier, tracking_number) ==
  ~(Falsy(carrier) /\ Falsy(tracking_number))

\* validation of the tracking route: if (!carrier || !tracking_number)
TrackingValid(carrier, tracking_number) ==
  ~(Falsy(carrier) \/ Falsy(tracking_number))

BodyValid(r) ==
  IF r.op = "status" THEN StatusValid(r.impl, r.status)
  ELSE TrackingValid(r.carrier, r.tracking_number)

\* the columns the handler's orders update sets
UpdatePatch(r) ==
  IF r.op = "status"
  THEN IF r.impl = "root"
       THEN [status |-> r.status, updated_at |-> r.ts, updated_by |-> r.token]
       ELSE [status |-> r.status]
  ELSE IF r.impl = "root"
       THEN IF r.tracking_url = Missing
            THEN [shipping_carrier |-> r.carrier,
                  tracking_number |-> r.tracking_number,
                  status |-> "shipped", updated_at |-> r.ts,
                  updated_by |-> r.token]
            ELSE [shipping_carrier |-> r.carrier,
                  tracking_number |-> r.tracking_number,
                  tracking_url |-> r.tracking_url,
                  status |-> "shipped", updated_at |-> r.ts,
                  updated_by |-> r.token]
       ELSE [status |-> "shipped", shipping_carrier |-> r.carrier,
             tracking_number |-> r.tracking_number,
             tracking_url |-> IF Falsy(r.tracking_url) THEN NULL
                              ELSE r.tracking_url]

\* the row the handler inserts into order_history
HistoryRow(r) ==
  IF r.impl = "root"
  THEN IF r.op = "status"
       THEN [order_id |-> r.id, status |-> r.status,
             employee_id |-> r.token,
             employee_name |-> employeeName(r.token),
             employee_role |-> employeeRole(r.token)]
       ELSE [order_id |-> r.id, status |-> "shipped",
             employee_id |-> r.token,
             employee_name |-> employeeName(r.token),
             employee_role |-> employeeRole(r.token),
             notes |-> <<"Shipped via ", r.carrier, ", tracking: ",
                         r.tracking_number>>]
  ELSE IF r.op = "status"
       THEN [order_id |-> r.id, status |-> r.status,
             updated_by |-> r.token,
             notes |-> <<IF Falsy(r.notes) THEN "" ELSE r.notes>>]
       ELSE [order_id |-> r.id, status |-> "shipped",
             updated_by |-> r.token,
             notes |-> <<"Shipped via ", r.carrier, ". Tracking #: ",
                         r.tracking_number>>]

\* GET /api/orders/:id/history: the order's rows, newest first
RECURSIVE Reverse(_)
Reverse(q) == IF q = <<>> THEN <<>> ELSE Append(Reverse(Tail(q)), Head(q))

HistoryOf(h, id) == Reverse(SelectSeq(h, LAMBDA e : e.order_id = id))

get_history(id) == HistoryOf(history, id)

\* the foreign keys the schema declares: from table, to table
ForeignKeys == {<<"order_history", "orders">>}

\* GET /api/orders/:id/history as each server answers it: server.js selects
\* the rows; server/server.js also embeds employees (name, email, role),
\* which the store resolves through a foreign key and refuses without one
getHistory(impl, id) ==
  IF impl = "server" /\ <<"order_history", "employees">> \notin ForeignKeys
  THEN [code |-> 500, body |-> <<>>]
  ELSE [code |-> 200, body |-> get_history(id)]

\* select('*').eq('id', id).single(): exactly one row, or an error
single(id) == [error |-> ~Live(id), found |-> Live(id)]

\* GET /api/orders/:id: the status it answers with
get(id) ==
  LET res == single(id)
  IN IF res.error THEN 500
     ELSE IF ~res.found THEN 404
     ELSE 200

\* ------------------------------------------------- the live orders view
\* a row as the view holds it in its list and as an event carries it: of
\* the columns, the id, the status and the carrier are kept
RowEntry(o, row) ==
  [id |-> o, status |-> row.status, shipping_carrier |-> row.shipping_carrier]

Entry(o) == RowEntry(o, orders[o])

InList(l, o) == \E i \in DOMAIN l : l[i].id = o

EntryIn(l, o) == l[CHOOSE i \in DOMAIN l : l[i].id = o]

\* the filters of the view's select box the model tries
Filters == {"all", "pending"}

\* select * from orders order by created_at desc, with .eq('status', f)
\* unless f is 'all'; the orders are created in the order of their ids
RECURSIVE QueryUpTo(_, _)
QueryUpTo(n, f) ==
  IF n = 0 THEN <<>>
  ELSE IF Live(n) /\ (f = "all" \/ orders[n].status = f)
       THEN <<Entry(n)>> \o QueryUpTo(n - 1, f)
       ELSE QueryUpTo(n - 1, f)

Query(f) == QueryUpTo(Cardinality(OrderIds), f)

\* the INSERT handler's state update
onInsert(prevOrders, newOrder) ==
  IF InList(prevOrders, newOrder.id) THEN prevOrders
  ELSE <<newOrder>> \o prevOrders

\* the UPDATE handler's state update
onUpdate(prevOrders, updatedOrder) ==
  [i \in DOMAIN prevOrders |->
     IF prevOrders[i].id = updatedOrder.id THEN updatedOrder
     ELSE prevOrders[i]]

\* the DELETE handler's state update
onDelete(prevOrders, deletedOrderId) ==
  SelectSeq(prevOrders, LAMBDA order : order.id # deletedOrderId)

\* orders.map(order => order.id === orderId ? { ...order, ...patch } : order)
MapPatch(l, orderId, patch) ==
  [i \in DOMAIN l |->
     IF l[i].id = orderId
     THEN [c \in DOMAIN l[i] |->
             IF c \in DOMAIN patch THEN patch[c] ELSE l[i][c]]
     ELSE l[i]]

\* fetchOrders and the update handlers while no call of theirs is waiting
NoFetch == [pc |-> "idle", filter |-> "all", error |-> FALSE, data |-> <<>>]

NoUpdate ==
  [pc |-> "idle", id |-> 0, patch |-> [status |-> Missing], orders |-> <<>>]

\* ----------------------------------------------------------- the listing
\* a query parameter that holds a number is the number's decimal string;
\* the model writes the number for the string and 0 for an absent parameter
NoParam == 0

\* const { status, search, page = 1, limit = 20 } = req.query
DefaultPage == 1

DefaultLimit == 20

RECURSIVE Digits(_)
Digits(n) == IF n < 10 THEN 1 ELSE 1 + Digits(n \div 10)

RECURSIVE Power10(_)
Power10(k) == IF k = 0 THEN 1 ELSE 10 * Power10(k - 1)

\* (page - 1) * limit: the operands are converted to numbers
RangeFrom(page, limit) ==
  ((IF page = NoParam THEN DefaultPage ELSE page) - 1)
    * (IF limit = NoParam THEN DefaultLimit ELSE limit)

\* from + limit - 1: with limit a string, + appends it to the digits of
\* from and - 1 converts the result back to a number; with the default
\* limit, a number, + adds
RangeTo(page, limit) ==
  IF limit = NoParam THEN RangeFrom(page, limit) + DefaultLimit - 1
  ELSE RangeFrom(page, limit) * Power10(Digits(limit)) + limit - 1

\* .range(from, to) of a sequence: the rows at the zero-based positions
\* from to to that exist
Range(q, from, to) ==
  [i \in 1..(IF to + 1 < Len(q) THEN to + 1 - from
             ELSE IF Len(q) > from THEN Len(q) - from ELSE 0) |-> q[from + i]]

\* Math.ceil(count / limit)
Ceil(count, limit) == (count + limit - 1) \div limit

\* the pages and limits of the requests, and their status filters
Pages == {NoParam, 1, 2, 3}

Limits == {NoParam, 1, 2, 10}

StatusFilters == {Missing, "pending"}

NoListing ==
  [code |-> 0, status |-> Missing, page |-> NoParam, limit |-> NoParam,
   orders |-> <<>>, total |-> 0, pages |-> 0]

\* ---------------------------------------------------------- the checkout
\* the columns of public.orders, with those the later scripts add, and the
\* columns declared NOT NULL without a default
OrdersColumns ==
  {"id", "customer_name", "customer_email", "customer_phone", "product_name",
   "product_id", "quantity", "total_price", "status", "shipping_address",
   "payment_method", "payment_id", "notes", "created_at", "updated_at",
   "shipping_carrier", "tracking_number", "tracking_url", "updated_by",
   "shipping_address_id"}

OrdersNotNull ==
  {"customer_name", "customer_email", "product_name", "total_price",
   "shipping_address", "payment_method"}

\* an orders table that takes a row whatever columns it names
OrdersInsertAcceptedAny(columns) == TRUE

\* whether the store takes an INSERT INTO orders that names these columns
OrdersInsertAccepted(columns) ==
  /\ columns \subseteq OrdersColumns
  /\ OrdersNotNull \subseteq columns

\* the columns of the row the server inserts with a new payment intent
ServerOrderColumns ==
  {"payment_intent_id", "amount", "currency", "status", "customer_name",
   "customer_email", "customer_phone", "shipping_address"}

\* the columns of orderData, which the checkout form inserts
ClientOrderColumns ==
  {"customer_name", "customer_email", "customer_phone", "product_name",
   "product_id", "quantity", "total_price", "status", "shipping_address",
   "payment_method", "payment_id", "notes"}

\* a new row for a payment: status 'pending'; payment_id holds the payment
\* intent's id the row was inserted with
PaidOrderRow(now, payment) == [NewOrderRow(now) EXCEPT !.payment_id = payment]

\* the customers checking out
Customers == {1, 2}

\* the payment step of a checkout before a payment method is selected
NoCheckout ==
  [pc |-> "payment", clientSecret |-> NoPayment, paid |-> NoPayment,
   error |-> FALSE, paymentComplete |-> FALSE]

\* ------------------------------------------------------ the address book
\* the users who keep addresses, and the calls that can run side by side
Users == {1, 2}

Calls == {1, 2}

\* no saveShippingAddress running in this place
NoCall == [pc |-> "idle", user_id |-> 0, is_default |-> FALSE]

\* update({ is_default: false }).eq('user_id', userId).eq('is_default', true)
UnsetDefault(rows, userId) ==
  [i \in DOMAIN rows |->
     IF rows[i].user_id = userId /\ rows[i].is_default
     THEN [rows[i] EXCEPT !.is_default = FALSE]
     ELSE rows[i]]

\* ------------------------------------------------------------- the login
\* the addresses the login requests come from
Ips == {1, 2}

\* 15 * 60 * 1000 milliseconds, in minutes
Window == 15

\* if (loginAttempts[ip].count > 5)
MaxAttempts == 5

\* loginAttempts[ip] of an ip the object has no entry for
NoAttempts == [count |-> 0, lastAttempt |-> 0]

\* loginRateLimiter: the attempts after the call and the status it answers
\* with, 0 when it calls next()
loginRateLimiter(attempts, ip, now) ==
  LET counted ==
        IF attempts[ip].count = 0 \/ now - attempts[ip].lastAttempt > Window
        THEN [count |-> 1, lastAttempt |-> now]
        ELSE [count |-> attempts[ip].count + 1, lastAttempt |-> now]
  IN [attempts |-> [attempts EXCEPT ![ip] = counted],
      code |-> IF counted.count > MaxAttempts THEN 429 ELSE 0]

\* app.post('/api/employees/login', async (req, res) => ...): the route is
\* registered with its handler alone
LoginRoute == <<>>

\* whether a route was registered with the middleware
Registered(route, middleware) ==
  \E i \in DOMAIN route : route[i] = middleware

\* the handler of the route: the hardcoded credentials
LoginHandler(email, password) ==
  IF Falsy(email) \/ Falsy(password) THEN 400
  ELSE IF email = "admin@dframes.com" /\ password = "admin123" THEN 200
  ELSE 401

\* what the request bodies hold
Emails == {Missing, "admin@dframes.com", "eve@dframes.com"}

Passwords == {"admin123", "guess"}

\* minutes between one request and the next
Waits == {1, 16}

\* no login attempt made yet: the time, the number of attempts, and per ip
\* the attempts in a row with no gap longer than the window, the time of
\* the last one and the last answer
NoCallers ==
  [minute |-> 0, n |-> 0, made |-> [ip \in Ips |-> 0],
   at |-> [ip \in Ips |-> 0], code |-> [ip \in Ips |-> 0]]

\* -------------------------------------------------------------- actions
InitRest ==
  /\ history = <<>>
  /\ histSeq = 0
  /\ rq = [s \in Slots |-> IdleReq]
  /\ view = [o \in OrderIds |-> "none"]
  /\ clock = 0
  /\ ops = 0
  /\ list = <<>>
  /\ filter = "all"
  /\ feed = {}
  /\ task = [fetch |-> NoFetch, upd |-> NoUpdate]
  /\ loginAttempts = [ip \in Ips |-> NoAttempts]
  /\ callers = NoCallers
  /\ listing = NoListing
  /\ checkout = [c \in Customers |-> NoCheckout]
  /\ intents = <<>>
  /\ addresses = <<>>
  /\ saving = [c \in Calls |-> NoCall]

Init == orders = [o \in OrderIds |-> NoRow] /\ InitRest

\* new Date() in a handler: time has passed since the clock was last read
Now == clock + 1

\* the checkout saves a new order with status 'pending'
CreateOrder(o) ==
  /\ orders[o].row = "none"
  /\ \A p \in OrderIds : p < o => orders[p].row # "none"
  /\ orders' = [orders EXCEPT ![o] = NewOrderRow(clock)]
  /\ UNCHANGED <<history, histSeq, rq, view, clock, ops, aside>>

\* DELETE FROM orders, which the orders policies allow to any client
DeleteOrder(o) ==
  /\ Live(o)
  /\ orders' = [orders EXCEPT ![o] = GoneRow]
  /\ history' = CascadeDelete(history, o)
  /\ UNCHANGED <<histSeq, rq, view, clock, ops, aside>>

\* a request enters a mutating route: the middleware and the validation run
\* before the first await and answer a request they reject; otherwise the
\* handler reads the clock and sends the orders update
Handle(s, r) ==
  /\ rq[s].pc = "idle"
  /\ \A t \in Slots : t < s => rq[t].pc # "idle"
  /\ ops' = ops + 1
  /\ rq' = [rq EXCEPT ![s] =
       IF Middleware(r.token) # 0
       THEN [r EXCEPT !.pc = "reply", !.code = Middleware(r.token)]
       ELSE IF ~BodyValid(r)
       THEN [r EXCEPT !.pc = "reply", !.code = 400]
       ELSE [r EXCEPT !.pc = "update", !.ts = Now]]
  /\ clock' = IF Middleware(r.token) = 0 /\ BodyValid(r) THEN Now ELSE clock
  /\ UNCHANGED <<orders, history, histSeq, view, aside>>

\* a request of the callers the model lets loose on the servers
Receive(s, r) == ops < MaxOps /\ Handle(s, r)

\* PATCH /api/orders/:id/status
PatchStatus(s, impl, id, token, status) ==
  Receive(s, StatusReq(impl, id, token, status))

\* POST /api/orders/:id/tracking
PostTracking(s, impl, id, token, carrier, tracking_number, tracking_url) ==
  Receive(s, TrackingReq(impl, id, token, carrier, tracking_number,
                         tracking_url))

\* an orders update whose error is not looked at
OnUpdateErrorIgnored(r) == [r EXCEPT !.pc = "insert"]

\* if (error) throw error; the catch block logs the error and answers 500
OnUpdateError(r) == [r EXCEPT !.pc = "reply", !.code = 500, !.logged = TRUE]

\* the store executes the handler's orders update; .single() makes no
\* matching row an error, as is a violated CHECK or an unreachable store
OrdersUpdate(s) ==
  /\ rq[s].pc = "update"
  /\ \E ok \in BOOLEAN :
       LET r == rq[s]
           patch == UpdatePatch(r)
           applies == ok /\ Live(r.id) /\ OrdersStatusCheck(patch.status)
       IN IF applies
          THEN /\ orders' = [orders EXCEPT ![r.id] = ApplyPatch(@, patch)]
               /\ rq' = [rq EXCEPT ![s].pc = "insert"]
          ELSE /\ rq' = [rq EXCEPT ![s] = OnUpdateError(r)]
               /\ UNCHANGED orders
  /\ UNCHANGED <<history, histSeq, view, clock, ops, aside>>

\* the store executes the handler's order_history insert; the handler does
\* not look at the result and answers 200 with the updated order
OrderHistoryInsert(s) ==
  /\ rq[s].pc = "insert"
  /\ \E ok \in BOOLEAN :
       LET r == rq[s]
           row == HistoryRow(r)
       IN IF ok /\ InsertAccepted(row)
          THEN /\ history' = Append(history, StoredRow(row, histSeq + 1))
               /\ histSeq' = histSeq + 1
          ELSE UNCHANGED <<history, histSeq>>
  /\ rq' = [rq EXCEPT ![s].pc = "reply", ![s].code = 200]
  /\ UNCHANGED <<orders, view, clock, ops, aside>>

\* a status request that carries notes in its body
PatchStatusWithNotes(s, impl, id, token, status, notes) ==
  Receive(s, [StatusReq(impl, id, token, status) EXCEPT !.notes = notes])

\* the read routes: GET /api/orders ("list"), GET /api/orders/:id ("get",
\* server.js only) and GET /api/orders/:id/history ("history")
ReadReq(impl, op, id, token) ==
  [IdleReq EXCEPT !.impl = impl, !.op = op, !.id = id, !.token = token]

\* what a read handler answers once past the middleware
ReadCode(r) ==
  CASE r.op = "get" -> get(r.id)
    [] r.op = "history" -> getHistory(r.impl, r.id).code
    [] OTHER -> 200

\* server/server.js has no route GET /api/orders/:id
RouteExists(impl, op) == impl = "root" \/ op # "get"

\* a request to a read route: the middleware, a select, the answer
ReadRequest(s, r) ==
  /\ RouteExists(r.impl, r.op)
  /\ rq[s].pc = "idle"
  /\ \A t \in Slots : t < s => rq[t].pc # "idle"
  /\ rq' = [rq EXCEPT ![s] =
       [r EXCEPT !.pc = "reply",
                 !.code = IF ReadMiddleware(r.impl, r.token) # 0
                          THEN ReadMiddleware(r.impl, r.token)
                          ELSE ReadCode(r)]]
  /\ UNCHANGED <<orders, history, histSeq, view, clock, ops, aside>>

\* the caller receives the answer and the request is over
Reply(s) ==
  /\ rq[s].pc = "reply"
  /\ rq' = [rq EXCEPT ![s] = IdleReq]
  /\ UNCHANGED <<orders, history, histSeq, view, clock, ops, aside>>

\* the action buttons the view shows for an order it displays with status st
ButtonShown(st, newStatus) ==
  \/ st = "pending" /\ newStatus = "processing"
  \/ st = "shipped" /\ newStatus = "delivered"
  \/ st \in {"pending", "processing"} /\ newStatus = "cancelled"

\* OrdersView.handleStatusUpdate: writes the orders row directly
handleStatusUpdate(orderId, newStatus) ==
  /\ ops < MaxOps
  /\ ButtonShown(view[orderId], newStatus)
  /\ ops' = ops + 1
  /\ \E ok \in BOOLEAN :
       IF ok
       THEN /\ orders' = [orders EXCEPT ![orderId] =
                 IF Live(orderId)
                 THEN ApplyPatch(@, [status |-> newStatus, updated_at |-> Now])
                 ELSE @]
            /\ view' = [view EXCEPT ![orderId] = newStatus]
       ELSE UNCHANGED <<orders, view>>
  /\ clock' = Now
  /\ UNCHANGED <<history, histSeq, rq, aside>>

\* OrdersView.handleTrackingSubmit: the button is disabled while the
\* carrier or the tracking number of the form is empty
handleTrackingSubmit(orderId, carrier, tracking_number, tracking_url) ==
  /\ ops < MaxOps
  /\ view[orderId] = "processing"
  /\ ~Falsy(carrier) /\ ~Falsy(tracking_number)
  /\ ops' = ops + 1
  /\ \E ok \in BOOLEAN :
       IF ok
       THEN /\ orders' = [orders EXCEPT ![orderId] =
                 IF Live(orderId)
                 THEN ApplyPatch(@, [status |-> "shipped",
                                     shipping_carrier |-> carrier,
                                     tracking_number |-> tracking_number,
                                     tracking_url |-> tracking_url,
                                     updated_at |-> Now])
                 ELSE @]
            /\ view' = [view EXCEPT ![orderId] = "shipped"]
       ELSE UNCHANGED <<orders, view>>
  /\ clock' = Now
  /\ UNCHANGED <<history, histSeq, rq, aside>>

\* OrdersView.fetchOrders with the filter 'all': the list becomes the
\* store's orders, or empty when the query fails
fetchOrders ==
  /\ \E ok \in BOOLEAN :
       view' = [o \in OrderIds |->
                  IF ok /\ Live(o) THEN orders[o].status ELSE "none"]
  /\ UNCHANGED <<orders, history, histSeq, rq, clock, ops, aside>>

\* ---------------------------------------- the live view, call by call
\* the store publishes a change of public.orders to the subscribers
Event(event, o, row) == [event |-> event, row |-> RowEntry(o, row)]

\* the checkout inserts an order while the view is subscribed
OrderInserted(o) ==
  /\ orders[o].row = "none"
  /\ \A p \in OrderIds : p < o => orders[p].row # "none"
  /\ orders' = [orders EXCEPT ![o] = NewOrderRow(clock)]
  /\ feed' = feed \cup {Event("INSERT", o, orders'[o])}
  /\ UNCHANGED <<history, histSeq, rq, view, clock, ops, list, filter, task, asideView>>

\* another client sets the status of an order
OrderUpdated(o, status) ==
  /\ ops < MaxOps
  /\ Live(o)
  /\ ops' = ops + 1
  /\ clock' = Now
  /\ orders' = [orders EXCEPT ![o] =
       ApplyPatch(@, [status |-> status, updated_at |-> Now])]
  /\ feed' = feed \cup {Event("UPDATE", o, orders'[o])}
  /\ UNCHANGED <<history, histSeq, rq, view, list, filter, task, asideView>>

\* another client deletes an order; of the old row the event carries the id
OrderDeleted(o) ==
  /\ Live(o)
  /\ orders' = [orders EXCEPT ![o] = GoneRow]
  /\ history' = CascadeDelete(history, o)
  /\ feed' = feed \cup {Event("DELETE", o, NoRow)}
  /\ UNCHANGED <<histSeq, rq, view, clock, ops, list, filter, task, asideView>>

\* what the handler of the event makes of the list
Handled(prevOrders, ev) ==
  CASE ev.event = "INSERT" -> onInsert(prevOrders, ev.row)
    [] ev.event = "UPDATE" -> onUpdate(prevOrders, ev.row)
    [] OTHER -> onDelete(prevOrders, ev.row.id)

\* the channel delivers an event to the view's handler; it may deliver the
\* same event again later
Deliver(again) ==
  /\ \E ev \in feed :
       /\ list' = Handled(list, ev)
       /\ feed' = IF again THEN feed ELSE feed \ {ev}
  /\ <<list', feed'>> # <<list, feed>>
  /\ UNCHANGED <<lifecycle, filter, task, asideView>>

\* the select box of the view
setFilter(f) ==
  /\ f # filter
  /\ filter' = f
  /\ UNCHANGED <<lifecycle, list, feed, task, asideView>>

\* fetchOrders is called (Refresh): the query is built with the filter of
\* the render that called it
fetchOrdersCall ==
  /\ task.fetch.pc = "idle"
  /\ task' = [task EXCEPT !.fetch =
       [NoFetch EXCEPT !.pc = "query", !.filter = filter]]
  /\ UNCHANGED <<lifecycle, list, filter, feed, asideView>>

\* the store answers the query, with the rows or with an error
fetchOrdersQuery ==
  /\ task.fetch.pc = "query"
  /\ \E ok \in BOOLEAN :
       task' = [task EXCEPT !.fetch =
         [@ EXCEPT !.pc = "done", !.error = ~ok,
                   !.data = IF ok THEN Query(task.fetch.filter) ELSE <<>>]]
  /\ UNCHANGED <<lifecycle, list, filter, feed, asideView>>

\* fetchOrders goes on after its await: setOrders(data), or setOrders([])
\* in the catch
fetchOrdersResume ==
  /\ task.fetch.pc = "done"
  /\ list' = IF task.fetch.error THEN <<>> ELSE task.fetch.data
  /\ task' = [task EXCEPT !.fetch = NoFetch]
  /\ UNCHANGED <<lifecycle, filter, feed, asideView>>

\* an update handler up to its await: it sends the update, which the store
\* applies and publishes, and keeps the orders of the render that called it
UpdateAwait(orderId, patch) ==
  /\ ops < MaxOps
  /\ task.upd.pc = "idle"
  /\ InList(list, orderId)
  /\ ops' = ops + 1
  /\ clock' = Now
  /\ \E ok \in BOOLEAN :
       /\ orders' = [orders EXCEPT ![orderId] =
            IF ok /\ Live(orderId)
            THEN ApplyPatch(@, patch @@ [updated_at |-> Now])
            ELSE @]
       /\ feed' = IF ok /\ Live(orderId)
                  THEN feed \cup {Event("UPDATE", orderId, orders'[orderId])}
                  ELSE feed
       /\ task' = [task EXCEPT !.upd =
            IF ok
            THEN [pc |-> "await", id |-> orderId, patch |-> patch,
                  orders |-> list]
            ELSE NoUpdate]
  /\ UNCHANGED <<history, histSeq, rq, view, list, filter, asideView>>

\* OrdersView.handleStatusUpdate up to its await
handleStatusUpdateAwait(orderId, newStatus) ==
  /\ InList(list, orderId)
  /\ ButtonShown(EntryIn(list, orderId).status, newStatus)
  /\ UpdateAwait(orderId, [status |-> newStatus])

\* OrdersView.handleTrackingSubmit up to its await
handleTrackingSubmitAwait(orderId, carrier) ==
  /\ InList(list, orderId)
  /\ EntryIn(list, orderId).status = "processing"
  /\ ~Falsy(carrier)
  /\ UpdateAwait(orderId, [status |-> "shipped", shipping_carrier |-> carrier])

\* an update handler after its await: setOrders(orders.map(...)) with the
\* orders it kept
UpdateResume ==
  /\ task.upd.pc = "await"
  /\ list' = MapPatch(task.upd.orders, task.upd.id, task.upd.patch)
  /\ task' = [task EXCEPT !.upd = NoUpdate]
  /\ UNCHANGED <<lifecycle, filter, feed, asideView>>

\* --------------------------------------------------------- the checkout
\* what the checkout leaves alone
asideCheckout ==
  <<history, histSeq, rq, view, clock, ops, liveVars, loginVars, listing,
    addressVars>>

\* PaymentSystem.initializePayment with POST /api/create-payment-intent: the
\* server creates the payment intent, inserts an order for it, logs an
\* insert error and answers the client secret, which the page keeps; when
\* the call fails the page shows the error
initializePayment(c, ok) ==
  /\ checkout[c].pc = "payment"
  /\ Len(intents) < MaxIntents
  /\ IF ok
     THEN /\ intents' = Append(intents, c)
          /\ orders' = IF OrdersInsertAccepted(ServerOrderColumns)
                       THEN Append(orders, PaidOrderRow(clock, Len(intents) + 1))
                       ELSE orders
          /\ checkout' = [checkout EXCEPT ![c].clientSecret = Len(intents) + 1,
                                          ![c].error = FALSE]
     ELSE /\ checkout' = [checkout EXCEPT ![c].error = TRUE]
          /\ UNCHANGED <<intents, orders>>
  /\ UNCHANGED asideCheckout

\* CheckoutForm.handleSubmit up to the order insert: the payment is
\* confirmed, or the form shows the error
confirmCardPayment(c, ok) ==
  /\ checkout[c].pc = "payment"
  /\ checkout[c].clientSecret # NoPayment
  /\ checkout' = [checkout EXCEPT ![c] =
       IF ok THEN [@ EXCEPT !.pc = "saving",
                            !.paid = checkout[c].clientSecret,
                            !.error = FALSE]
       ELSE [@ EXCEPT !.error = TRUE]]
  /\ UNCHANGED <<orders, intents, asideCheckout>>

\* CheckoutForm.handleSubmit from the order insert on: an insert error is
\* logged and the payment is reported complete
saveOrder(c, ok) ==
  /\ checkout[c].pc = "saving"
  /\ orders' = IF ok /\ OrdersInsertAccepted(ClientOrderColumns)
               THEN Append(orders, PaidOrderRow(clock, checkout[c].paid))
               ELSE orders
  /\ checkout' = [checkout EXCEPT ![c].pc = "complete",
                                  ![c].paymentComplete = TRUE]
  /\ UNCHANGED <<intents, asideCheckout>>

\* the checkouts start on a store without orders
InitCheckout == orders = <<>> /\ InitRest

NextCheckout ==
  \/ \E c \in Customers, ok \in BOOLEAN : initializePayment(c, ok)
  \/ \E c \in Customers, ok \in BOOLEAN : confirmCardPayment(c, ok)
  \/ \E c \in Customers, ok \in BOOLEAN : saveOrder(c, ok)

SpecCheckout == InitCheckout /\ [][NextCheckout]_vars

\* ----------------------------------------------------- the address book
\* what the address book leaves alone
asideAddress == <<lifecycle, liveVars, loginVars, listing, checkoutVars>>

\* saveShippingAddress up to the insert: for a default address the update
\* that unsets the user's default is awaited first, and its result is not
\* looked at
saveShippingAddress(c, userId, isDefault) ==
  /\ saving[c].pc = "idle"
  /\ Len(addresses) < MaxAddresses
  /\ \E ok \in BOOLEAN :
       addresses' = IF isDefault /\ ok THEN UnsetDefault(addresses, userId)
                    ELSE addresses
  /\ saving' = [saving EXCEPT ![c] =
       [pc |-> "insert", user_id |-> userId, is_default |-> isDefault]]
  /\ UNCHANGED asideAddress

\* saveShippingAddress from the insert on: the row is inserted with
\* is_default as given, or the error is logged and null returned
saveShippingAddressInsert(c) ==
  /\ saving[c].pc = "insert"
  /\ \E ok \in BOOLEAN :
       addresses' =
         IF ok /\ Len(addresses) < MaxAddresses
         THEN Append(addresses, [user_id |-> saving[c].user_id,
                                 is_default |-> saving[c].is_default])
         ELSE addresses
  /\ saving' = [saving EXCEPT ![c] = NoCall]
  /\ UNCHANGED asideAddress

\* updateShippingAddress: one update of the row with the id; is_default is
\* written when the partial address holds isDefault
updateShippingAddress(addressId, given, isDefault) ==
  /\ addressId \in DOMAIN addresses
  /\ \E ok \in BOOLEAN :
       addresses' = IF ok /\ given
                    THEN [addresses EXCEPT ![addressId].is_default = isDefault]
                    ELSE addresses
  /\ addresses' # addresses
  /\ UNCHANGED <<saving, asideAddress>>

NextAddress ==
  \/ \E c \in Calls, u \in Users, isDefault \in BOOLEAN :
       saveShippingAddress(c, u, isDefault)
  \/ \E c \in Calls : saveShippingAddressInsert(c)
  \/ \E a \in 1..MaxAddresses, given \in BOOLEAN, isDefault \in BOOLEAN :
       updateShippingAddress(a, given, isDefault)

SpecAddress == Init /\ [][NextAddress]_vars

\* ---------------------------------------------------------- the listing
\* the orders with the status, newest first
Filtered(status) ==
  QueryUpTo(Len(orders), IF Falsy(status) THEN "all" ELSE status)

\* GET /api/orders of server.js
GetOrders(token, status, page, limit) ==
  /\ listing' =
       IF ReadMiddleware("root", token) # 0
       THEN [NoListing EXCEPT !.code = ReadMiddleware("root", token)]
       ELSE [code |-> 200, status |-> status, page |-> page, limit |-> limit,
             orders |-> Range(Filtered(status), RangeFrom(page, limit),
                              RangeTo(page, limit)),
             total |-> Len(Filtered(status)),
             pages |-> Ceil(Len(Filtered(status)),
                            IF limit = NoParam THEN DefaultLimit ELSE limit)]
  /\ UNCHANGED <<lifecycle, liveVars, loginVars, checkoutVars, addressVars>>

\* a table of up to MaxRows orders, pending or processing
InitListing ==
  /\ \E n \in 0..MaxRows :
       orders \in [1..n -> {NewOrderRow(0),
                            [NewOrderRow(0) EXCEPT !.status = "processing"]}]
  /\ InitRest

NextListing ==
  \E token \in {NoToken, 3}, status \in StatusFilters, page \in Pages,
     limit \in Limits : GetOrders(token, status, page, limit)

SpecListing == InitListing /\ [][NextListing]_vars

\* ------------------------------------------------------------ the login
\* what the login leaves alone
asideLogin == <<lifecycle, liveVars, listing, checkoutVars, addressVars>>

\* POST /api/employees/login from ip, some minutes after the request before
Login(ip, email, password, wait) ==
  LET now == callers.minute + wait
      limited == IF Registered(LoginRoute, "loginRateLimiter")
                 THEN loginRateLimiter(loginAttempts, ip, now)
                 ELSE [attempts |-> loginAttempts, code |-> 0]
      answer == IF limited.code # 0 THEN limited.code
                ELSE LoginHandler(email, password)
      inARow == callers.made[ip] > 0 /\ now - callers.at[ip] <= Window
  IN /\ callers.n < MaxLogins
     /\ loginAttempts' = limited.attempts
     /\ callers' = [minute |-> now, n |-> callers.n + 1,
                    made |-> [callers.made EXCEPT ![ip] =
                                IF inARow THEN @ + 1 ELSE 1],
                    at |-> [callers.at EXCEPT ![ip] = now],
                    code |-> [callers.code EXCEPT ![ip] = answer]]
     /\ UNCHANGED asideLogin

NextLogin ==
  \E ip \in Ips, email \in Emails, password \in Passwords, wait \in Waits :
    Login(ip, email, password, wait)

SpecLogin == Init /\ [][NextLogin]_vars

\* the servers' part of the next-state relation, for requests drawn from
\* the given sets
ServerNext(slots, tokens, statuses, carriers, tns, urls) ==
  \/ \E s \in slots, impl \in Impls, id \in OrderIds, token \in tokens,
        status \in statuses : PatchStatus(s, impl, id, token, status)
  \/ \E s \in slots, impl \in Impls, id \in OrderIds, token \in tokens,
        carrier \in carriers, tn \in tns, url \in urls :
        PostTracking(s, impl, id, token, carrier, tn, url)
  \/ \E s \in slots : OrdersUpdate(s)
  \/ \E s \in slots : OrderHistoryInsert(s)
  \/ \E s \in slots : Reply(s)

\* the lifecycle: two concurrent requests of authorised employees with any
\* status token, the admin view, order creation and deletion
Next ==
  \/ \E o \in OrderIds : CreateOrder(o)
  \/ \E o \in OrderIds : DeleteOrder(o)
  \/ ServerNext(Slots, {2}, StatusTokens, {"UPS"}, {"1Z999"}, {Missing})
  \/ \E o \in OrderIds, st \in validStatuses : handleStatusUpdate(o, st)
  \/ \E o \in OrderIds : handleTrackingSubmit(o, "UPS", "1Z999", Missing)
  \/ fetchOrders

Spec == Init /\ [][Next]_vars

\* the request gate: one request at a time, with every token and every body
NextGate ==
  \/ \E o \in OrderIds : CreateOrder(o)
  \/ ServerNext({1}, Tokens, StatusTokens, Carriers, TrackingNumbers,
                TrackingUrls)

SpecGate == Init /\ [][NextGate]_vars

\* one request at a time of a manager, with bodies that pass the validation;
\* an awaited store call resolves and the handler then runs on
NextLive ==
  \/ \E o \in OrderIds : CreateOrder(o)
  \/ ServerNext({1}, {2}, validStatuses, {"UPS"}, {"1Z999"}, {Missing})

Fairness ==
  \A s \in Slots :
    /\ WF_vars(OrdersUpdate(s))
    /\ WF_vars(OrderHistoryInsert(s))
    /\ WF_vars(Reply(s))

SpecLive == Init /\ [][NextLive]_vars /\ Fairness

\* no request is being handled
Quiet == \A s \in Slots : rq[s].pc = "idle"

\* the read routes next to the status route of server.js, one request at a
\* time
ReadOps == {"list", "get", "history"}

NextRead ==
  \/ \E o \in OrderIds : CreateOrder(o)
  \/ \E impl \in Impls, op \in ReadOps, id \in OrderIds, token \in Tokens :
       ReadRequest(1, ReadReq(impl, op, id, token))
  \/ \E id \in OrderIds, st \in {"processing", "shipped"} :
       PatchStatus(1, "root", id, 2, st)
  \/ OrdersUpdate(1)
  \/ OrderHistoryInsert(1)
  \/ Reply(1)

SpecRead == Init /\ [][NextRead]_vars

\* the status route called with and without notes, one request at a time
NotesGiven == {Missing, "call customer"}

NextNotes ==
  \/ \E o \in OrderIds : CreateOrder(o)
  \/ \E impl \in Impls, id \in OrderIds, token \in {1, 2},
        st \in {"processing", "cancelled"}, notes \in NotesGiven :
       PatchStatusWithNotes(1, impl, id, token, st, notes)
  \/ OrdersUpdate(1)
  \/ OrderHistoryInsert(1)
  \/ Reply(1)

SpecNotes == Init /\ [][NextNotes]_vars

\* the live view next to the checkout and another client of the store
NextView ==
  \/ \E o \in OrderIds : OrderInserted(o)
  \/ \E o \in OrderIds : OrderUpdated(o, "processing")
  \/ \E o \in OrderIds : OrderDeleted(o)
  \/ \E again \in BOOLEAN : Deliver(again)
  \/ \E f \in Filters : setFilter(f)
  \/ fetchOrdersCall
  \/ fetchOrdersQuery
  \/ fetchOrdersResume
  \/ \E o \in OrderIds : handleStatusUpdateAwait(o, "processing")
  \/ \E o \in OrderIds : handleTrackingSubmitAwait(o, "UPS")
  \/ UpdateResume

SpecView == Init /\ [][NextView]_vars

\* the order the checkout created first
FirstOrder == CHOOSE o \in OrderIds : \A p \in OrderIds : o <= p

\* three calls in a row on one order: set_status 'processing' and
\* add_tracking by one manager, set_status 'delivered' by another
Scenario(impl, o) ==
  << StatusReq(impl, o, 2, "processing"),
     TrackingReq(impl, o, 2, "UPS", "1Z999", Missing),
     StatusReq(impl, o, 4, "delivered") >>

\* the caller sends its next call once the previous one has been answered
ScenarioCall(impl) ==
  /\ Quiet
  /\ Live(FirstOrder)
  /\ ops < Len(Scenario(impl, FirstOrder))
  /\ \E s \in Slots : Handle(s, Scenario(impl, FirstOrder)[ops + 1])

\* the caller goes on after an answer 200 and gives up after any other
ScenarioReply(s) == rq[s].code = 200 /\ Reply(s)

NextScenario ==
  \/ \E o \in OrderIds : CreateOrder(o)
  \/ \E impl \in Impls : ScenarioCall(impl)
  \/ \E s \in Slots : OrdersUpdate(s)
  \/ \E s \in Slots : OrderHistoryInsert(s)
  \/ \E s \in Slots : ScenarioReply(s)

SpecScenario == Init /\ [][NextScenario]_vars

\* ---------------------------------------------------------- properties
\* the step in which the store applies the orders update of slot s
Updated(s) == rq[s].pc = "update" /\ rq'[s].pc = "insert"

\* the step in which slot s is answered 200, which is the step of its
\* order_history insert
Succeeded(s) == rq[s].pc = "insert" /\ rq'[s].pc = "reply" /\ rq'[s].code = 200

\* the step in which a request enters slot s
Arrived(s) == rq[s].pc = "idle" /\ rq'[s].pc # "idle"

StoreUnchanged == orders' = orders /\ history' = history

Contains(notes, piece) == \E i \in DOMAIN notes : notes[i] = piece

\* C1: whenever no request is under way, every order with at least one
\* history entry has its newest entry's status equal to its own status.
C1_NewestEntryIsOrderStatus ==
  Quiet =>
    \A o \in OrderIds :
      (Live(o) /\ get_history(o) # <<>>) =>
        get_history(o)[1].status = orders[o].status

\* C2: when a set_status call is answered 200, the newest history entry of
\* the order carries the call's status and the caller's id, name and role.
C2_SuccessLeavesCallersEntry ==
  [][\A s \in Slots :
       (Succeeded(s) /\ rq[s].op = "status") =>
         LET h == HistoryOf(history', rq[s].id)
         IN /\ h # <<>>
            /\ h[1].status = rq[s].status
            /\ h[1].employee_id = rq[s].token
            /\ h[1].employee_name = employeeName(rq[s].token)
            /\ h[1].employee_role = employeeRole(rq[s].token)]_vars

\* C3: an add_tracking call with a carrier and a tracking number leaves the
\* order shipped with that carrier and number, and appends a 'shipped'
\* history entry whose notes contain both.
C3_TrackingShipsAndLogs ==
  [][\A s \in Slots :
       /\ (Updated(s) /\ rq[s].op = "tracking") =>
            /\ orders'[rq[s].id].status = "shipped"
            /\ orders'[rq[s].id].shipping_carrier = rq[s].carrier
            /\ orders'[rq[s].id].tracking_number = rq[s].tracking_number
       /\ (Succeeded(s) /\ rq[s].op = "tracking") =>
            /\ Len(history') = Len(history) + 1
            /\ LET e == history'[Len(history')]
               IN /\ e.order_id = rq[s].id
                  /\ e.status = "shipped"
                  /\ Contains(e.notes, rq[s].carrier)
                  /\ Contains(e.notes, rq[s].tracking_number)]_vars

\* C4: an add_tracking request with an empty or missing carrier or tracking
\* number is answered on arrival without reaching the store: with 400 when
\* the caller passes the authorisation (otherwise with the middleware's 401
\* or 403), and neither its arrival nor its answer changes an order or the
\* history.
C4_InvalidTrackingRejected ==
  [][\A s \in Slots :
       /\ ( /\ Arrived(s)
            /\ rq'[s].op = "tracking"
            /\ (Falsy(rq'[s].carrier) \/ Falsy(rq'[s].tracking_number)) ) =>
            /\ rq'[s].pc = "reply"
            /\ rq'[s].code =
                 (IF Middleware(rq'[s].token) = 0 THEN 400
                  ELSE Middleware(rq'[s].token))
            /\ StoreUnchanged
       /\ (rq[s].pc = "reply" /\ rq'[s] # rq[s]) => StoreUnchanged]_vars

C4_Witness ==
  \E s \in Slots, o \in OrderIds :
    /\ rq[s].pc = "reply" /\ rq[s].code = 400 /\ rq[s].op = "tracking"
    /\ rq[s].id = o /\ Live(o) /\ get_history(o) # <<>>
    /\ Falsy(rq[s].tracking_number) /\ ~Falsy(rq[s].carrier)

C6_SuccessWritesOneEntry ==
  [][\A s \in Slots :
       Succeeded(s) =>
         Len(HistoryOf(history', rq[s].id)) =
           Len(HistoryOf(history, rq[s].id)) + 1]_vars

\* the history of order o before a step is kept by the step: same entries,
\* same order, new entries only in front (newest first)
Kept(o) ==
  LET old == HistoryOf(history, o)
      new == HistoryOf(history', o)
  IN /\ Len(new) >= Len(old)
     /\ \A i \in 1..Len(old) : new[Len(new) - Len(old) + i] = old[i]

\* C7 as stated: no step removes or changes a history entry of any order.
C7_NeverShrinks == [][\A o \in OrderIds : Kept(o)]_vars

\* C7 as amended: no step removes or changes a history entry of an order
\* that still exists after the step; the entries of an order go only when
\* the order itself is deleted.
C7_AppendOnlyWhileOrderExists ==
  [][\A o \in OrderIds :
       /\ Live(o)' => Kept(o)
       /\ ~Kept(o) => Live(o) /\ orders'[o].row = "gone"]_vars

C7_Witness ==
  \E o, p \in OrderIds :
    /\ Live(o) /\ Len(get_history(o)) = 1
    /\ orders[p].row = "gone" /\ histSeq = 2

\* C8: the status of every order is one of the five values.
C8_StatusInEnumeration ==
  \A o \in OrderIds :
    orders[o].status \in
      {"pending", "processing", "shipped", "delivered", "cancelled"}

C8_Witness ==
  \E s \in Slots :
    /\ rq[s].pc = "reply" /\ rq[s].code = 500 /\ rq[s].op = "status"
    /\ rq[s].status = "refunded" /\ Live(rq[s].id)

\* C9: an order has a carrier and a tracking number exactly when its status
\* is shipped or delivered.
C9_TrackingIffShipped ==
  \A o \in OrderIds :
    Live(o) =>
      ( (orders[o].shipping_carrier # NULL /\ orders[o].tracking_number # NULL)
        <=> orders[o].status \in {"shipped", "delivered"} )

\* C10: updated_at of an order never decreases, and every orders update of
\* set_status or add_tracking that the store applies changes it.
C10_UpdatedAtMoves ==
  [][/\ \A o \in OrderIds :
          (Live(o) /\ Live(o)') => orders'[o].updated_at >= orders[o].updated_at
     /\ \A s \in Slots :
          Updated(s) =>
            orders'[rq[s].id].updated_at # orders[rq[s].id].updated_at]_vars

\* the place of a status on the path pending, processing, shipped,
\* delivered; cancelled is final
StatusRank(st) ==
  CASE st = "pending" -> 0
    [] st = "processing" -> 1
    [] st = "shipped" -> 2
    [] st = "delivered" -> 3
    [] OTHER -> 4

\* C11: no step moves an existing order backward on the path pending,
\* processing, shipped, delivered (or out of cancelled), and none moves it
\* to cancelled from shipped or delivered.
C11_OnlyForwardOrCancel ==
  [][\A o \in OrderIds :
       (Live(o) /\ Live(o)' /\ orders'[o].status # orders[o].status) =>
         /\ orders'[o].status = "cancelled" =>
              orders[o].status \in {"pending", "processing"}
         /\ orders'[o].status # "cancelled" =>
              StatusRank(orders'[o].status) > StatusRank(orders[o].status)]_vars

\* C12: a set_status request of an admin or manager with one of the five
\* statuses is accepted whatever the order's current status; on an existing
\* order the store's update can be applied, an applied update leaves the
\* order with the new status, and the call is then answered 200.
C12_AnyStatusFromAnyStatus ==
  /\ [](\A s \in Slots :
          ( /\ rq[s].pc = "update" /\ rq[s].op = "status"
            /\ rq[s].status \in validStatuses /\ Live(rq[s].id) ) =>
            ENABLED (OrdersUpdate(s) /\ rq'[s].pc = "insert"))
  /\ [][\A s \in Slots :
          /\ ( /\ Arrived(s) /\ rq'[s].op = "status"
               /\ Middleware(rq'[s].token) = 0
               /\ rq'[s].status \in validStatuses ) => rq'[s].pc = "update"
          /\ (Updated(s) /\ rq[s].op = "status") =>
               orders'[rq[s].id].status = rq[s].status
          /\ (rq[s].pc = "insert" /\ rq'[s] # rq[s]) =>
               rq'[s].pc = "reply" /\ rq'[s].code = 200]_vars

C12_Witness ==
  \E o \in OrderIds :
    /\ Live(o) /\ orders[o].status = "pending"
    /\ Len(get_history(o)) = 2
    /\ get_history(o)[2].status = "delivered"
    /\ get_history(o)[1].status = "pending"

\* C13: a set_status request of an admin or manager whose status is none of
\* the five values, or is missing, is answered 400 on arrival and changes
\* neither an order nor the history.
C13_BadStatusRejected ==
  [][\A s \in Slots :
       ( /\ Arrived(s) /\ rq'[s].op = "status"
         /\ Middleware(rq'[s].token) = 0
         /\ rq'[s].status \notin validStatuses ) =>
         /\ rq'[s].pc = "reply"
         /\ rq'[s].code = 400
         /\ StoreUnchanged]_vars

\* C14: for an order id that does not exist, get answers 404, and a
\* set_status or add_tracking request that reaches the store is answered 404
\* and writes no history entry.
C14_UnknownIdNotFound ==
  [][/\ \A o \in OrderIds : ~Live(o) => get(o) = 404
     /\ \A s \in Slots :
          ( /\ rq[s].pc = "update" /\ rq'[s].pc # "update"
            /\ ~Live(rq[s].id) ) =>
            /\ rq'[s].pc = "reply"
            /\ rq'[s].code = 404
            /\ history' = history]_vars

\* a history entry that carries the status and the caller of request r
EntryOf(e, r) == e.status = r.status /\ e.employee_id = r.token

\* C15: when two set_status calls on the same order are both answered 200
\* and nothing else has written, the order holds the status of the update
\* applied last and its history has exactly two entries, one per call.
C15_RaceLeavesTwoEntries ==
  \A o \in OrderIds :
    ( /\ Live(o) /\ ops = 2
      /\ \A s \in Slots :
           /\ rq[s].pc = "reply" /\ rq[s].code = 200
           /\ rq[s].op = "status" /\ rq[s].id = o ) =>
      /\ orders[o].status \in {rq[s].status : s \in Slots}
      /\ (\A s \in Slots : rq[s].impl = "root") =>
           \E s \in Slots : /\ orders[o].updated_at = rq[s].ts
                             /\ orders[o].status = rq[s].status
      /\ Len(get_history(o)) = 2
      /\ \E i, j \in 1..2 :
           /\ i # j
           /\ EntryOf(get_history(o)[i], rq[1])
           /\ EntryOf(get_history(o)[j], rq[2])

\* the store has applied the update of a request to order o with status st
\* and the request's history insert is still to come
Committed(o, st) ==
  \E s \in Slots :
    /\ rq[s].pc = "insert" /\ rq[s].id = o
    /\ UpdatePatch(rq[s]).status = st

Recorded(o, st) ==
  \E i \in DOMAIN history :
    history[i].order_id = o /\ history[i].status = st

\* C16: whenever the orders update of a request to status st has been
\* applied, a history entry of the order with status st eventually exists.
C16_EntryFollowsUpdate ==
  \A o \in OrderIds, st \in validStatuses :
    Committed(o, st) ~> Recorded(o, st)

\* C17: when the history insert of a request fails after its orders update
\* was applied, the handler logs the failure and still answers 200.
C17_FailedInsertIsLogged ==
  [][\A s \in Slots :
       ( /\ rq[s].pc = "insert" /\ rq'[s].pc # "insert"
         /\ history' = history ) =>
         /\ rq'[s].logged
         /\ rq'[s].pc = "reply" /\ rq'[s].code = 200]_vars

\* C18: the orders update of a request either is applied as sent, or it
\* fails, and then the order and the history are unchanged and the request
\* is answered 500 at once; history entries are only written by requests
\* whose orders update was applied.
C18_FailedUpdateAborts ==
  [][/\ \A s \in Slots :
          (rq[s].pc = "update" /\ rq'[s].pc # "update") =>
            \/ /\ rq'[s].pc = "insert"
               /\ Live(rq[s].id)
               /\ orders' = [orders EXCEPT ![rq[s].id] =
                                ApplyPatch(@, UpdatePatch(rq[s]))]
               /\ history' = history
            \/ /\ rq'[s].pc = "reply"
               /\ rq'[s].code = 500
               /\ StoreUnchanged
     /\ history' # history =>
          \E s \in Slots : rq[s].pc = "insert" /\ rq'[s].pc = "reply"
     /\ \A s \in Slots :
          (rq[s].pc = "reply" /\ rq'[s] # rq[s]) => StoreUnchanged]_vars

C18_Witness ==
  \E s \in Slots :
    /\ rq[s].pc = "reply" /\ rq[s].code = 500
    /\ Live(rq[s].id) /\ OrdersStatusCheck(UpdatePatch(rq[s]).status)
    /\ get_history(rq[s].id) # <<>>

\* C19: in the scenario, the first call answered 200 leaves the order
\* 'processing' with one history entry, the second 'shipped' with carrier
\* UPS and two entries, the newest 'shipped' with notes naming UPS and
\* 1Z999, and the third 'delivered' with three entries.
C19_ScenarioCounts ==
  \A s \in Slots :
    (rq[s].pc = "reply" /\ rq[s].code = 200) =>
      LET o == rq[s].id
          h == get_history(o)
      IN /\ ops = 1 => orders[o].status = "processing" /\ Len(h) = 1
         /\ ops = 2 =>
              /\ orders[o].status = "shipped"
              /\ orders[o].shipping_carrier = "UPS"
              /\ Len(h) = 2
              /\ h[1].status = "shipped"
              /\ Contains(h[1].notes, "UPS")
              /\ Contains(h[1].notes, "1Z999")
         /\ ops = 3 => orders[o].status = "delivered" /\ Len(h) = 3

\* C20: for an order with history entries, get_history of either server
\* answers 200 with all and only the entries of that order, newest first,
\* each with the actor's id, name and role and its creation time.
C20_HistoryListing ==
  \A impl \in Impls, o \in OrderIds :
    get_history(o) # <<>> =>
      LET res == getHistory(impl, o)
          h == res.body
      IN /\ res.code = 200
         /\ \A i \in DOMAIN h : h[i].order_id = o
         /\ Len(h) = Cardinality({k \in DOMAIN history :
                                     history[k].order_id = o})
         /\ \A k \in DOMAIN history :
              history[k].order_id = o => \E i \in DOMAIN h : h[i] = history[k]
         /\ \A i, j \in DOMAIN h : i < j => h[i].created_at > h[j].created_at
         /\ \A i \in DOMAIN h :
              /\ h[i].employee_id \in Employees
              /\ h[i].employee_name = employeeName(h[i].employee_id)
              /\ h[i].employee_role = employeeRole(h[i].employee_id)
              /\ h[i].created_at \in 1..histSeq

\* C21: a request to a read route with a valid token of any role is not
\* answered 401 or 403, one without a valid token is answered 401, and no
\* read request changes an order or the history, on arrival or when answered.
C21_ReadsForAnyEmployee ==
  [][\A s \in Slots :
       /\ (Arrived(s) /\ rq'[s].op \in ReadOps) =>
            /\ rq'[s].pc = "reply"
            /\ StoreUnchanged
            /\ rq'[s].token \in Employees => rq'[s].code \notin {401, 403}
            /\ rq'[s].token \notin Employees => rq'[s].code = 401
       /\ (rq[s].op \in ReadOps /\ rq[s].pc = "reply" /\ rq'[s] # rq[s]) =>
            StoreUnchanged]_vars

C21_Witness ==
  \E s \in Slots :
    /\ rq[s].pc = "reply" /\ rq[s].op = "history" /\ rq[s].impl = "root"
    /\ rq[s].code = 200 /\ employeeRole(rq[s].token) = "support"
    /\ rq[s].token \in Employees
    /\ get_history(rq[s].id) # <<>>

\* C22: the history entry written by a set_status call answered 200 carries
\* the notes of the request, and no notes when the request had none.
C22_EntryCarriesNotes ==
  [][\A s \in Slots :
       ( /\ Succeeded(s) /\ rq[s].op = "status"
         /\ Len(history') = Len(history) + 1 ) =>
         history'[Len(history')].notes =
           (IF Falsy(rq[s].notes) THEN <<>> ELSE <<rq[s].notes>>)]_vars

\* the columns of an order row other than those in cols are the same before
\* and after the step
SameExcept(o, cols) ==
  \A c \in DOMAIN orders[o] \ cols : orders'[o][c] = orders[o][c]

\* C27: the orders update of a set_status request, and the view's status
\* button, change only status, updated_at and updated_by of the target
\* order: its carrier, tracking number and url, its customer and payment
\* columns and every other order stay as they were.
C27_StatusUpdateFrame ==
  [][/\ \A s \in Slots :
          (Updated(s) /\ rq[s].op = "status") =>
            /\ SameExcept(rq[s].id, {"status", "updated_at", "updated_by"})
            /\ \A o \in OrderIds \ {rq[s].id} : orders'[o] = orders[o]
     /\ \A o \in OrderIds :
          ( /\ rq' = rq /\ Live(o) /\ Live(o)'
            /\ orders'[o] # orders[o] /\ orders'[o].status # "shipped" ) =>
            /\ SameExcept(o, {"status", "updated_at", "updated_by"})
            /\ \A p \in OrderIds \ {o} : orders'[p] = orders[p]]_vars

C27_Witness ==
  \E s \in Slots :
    /\ rq[s].pc = "insert" /\ rq[s].op = "status"
    /\ orders[rq[s].id].status = "delivered"
    /\ orders[rq[s].id].shipping_carrier = "UPS"
    /\ orders[rq[s].id].customer_name = "Ann"

\* the list holds no two entries of one order
NoDuplicates(l) == \A i, j \in DOMAIN l : l[i].id = l[j].id => i = j

\* the step is fetchOrders going on after a query that succeeded
FetchCompletes ==
  task.fetch.pc = "done" /\ ~task.fetch.error /\ task'.fetch.pc = "idle"

\* the store's orders have not changed since the query read them
NothingInBetween == task.fetch.data = Query(task.fetch.filter)

\* C23: whatever events arrive, and however often, the view's list never
\* holds two entries of one order id; and when fetchOrders completes with
\* the store unchanged since its query, the list is the store's orders for
\* the filter selected in the view, newest first.
C23_ListReconciles ==
  [][ /\ NoDuplicates(list')
      /\ FetchCompletes /\ NothingInBetween => list' = Query(filter) ]_vars

\* the list never holds two entries of one order id
ListNeverDuplicates == NoDuplicates(list)

\* a fetch that completes leaves the store's orders for the filter it was
\* called with
FetchedForItsFilter ==
  [][ FetchCompletes /\ NothingInBetween
      => list' = Query(task.fetch.filter) ]_vars

\* the step is the DELETE handler acting on an event for order o
DeleteDelivered(o) ==
  /\ task' = task
  /\ \E ev \in feed : ev.event = "DELETE" /\ ev.row.id = o
  /\ list' = onDelete(list, o)

\* the step is fetchOrders replacing the list
Refetched == task.fetch.pc = "done" /\ task'.fetch.pc = "idle"

\* the step is an update handler going on after its await
UpdateCompletes == task.upd.pc = "await" /\ task'.upd.pc = "idle"

\* C26: an order in the view's list stays there until a DELETE event for
\* it or a refetch; an update handler that completes removes no order and
\* leaves the entries of the orders it was not called for as they are.
C26_InsertedStays ==
  [][ \A o \in OrderIds :
        InList(list, o) /\ ~DeleteDelivered(o) /\ ~Refetched
        => /\ InList(list', o)
           /\ UpdateCompletes /\ o # task.upd.id
              => EntryIn(list', o) = EntryIn(list, o) ]_vars

\* the step is a login request of ip that follows more than MaxAttempts
\* requests of that ip with no gap longer than the window, itself within
\* the window
FurtherAttempt(ip) ==
  /\ callers.made[ip] > MaxAttempts
  /\ callers'.made[ip] = callers.made[ip] + 1

\* C24: once an ip has made more than 5 login attempts with no gap longer
\* than 15 minutes between them, every further login request of that ip
\* within 15 minutes of its last one is answered 429.
C24_LoginRateLimited ==
  [][ \A ip \in Ips : FurtherAttempt(ip) => callers'.code[ip] = 429 ]_vars

\* the rows at the zero-based positions lo to hi of q, as far as they exist
Positions(q, lo, hi) ==
  SelectSeq([i \in 1..Len(q) |-> [at |-> i - 1, row |-> q[i]]],
            LAMBDA e : lo <= e.at /\ e.at <= hi)

\* C25: a listing with page p >= 1 and limit l >= 1 given in the query
\* answers exactly the orders at the positions (p-1)*l to p*l-1 of the
\* filtered sequence, newest first, and ceil(total / l) pages.
C25_PageOfListing ==
  listing.code = 200 /\ listing.page >= 1 /\ listing.limit >= 1
  => /\ [i \in DOMAIN listing.orders |->
          [at |-> (listing.page - 1) * listing.limit + i - 1,
           row |-> listing.orders[i]]]
        = Positions(Filtered(listing.status),
                    (listing.page - 1) * listing.limit,
                    listing.page * listing.limit - 1)
     /\ listing.pages = Ceil(Len(Filtered(listing.status)), listing.limit)

\* the order rows inserted for the payment intents of customer c
RowsOf(c) ==
  {i \in DOMAIN orders :
     /\ orders[i].payment_id \in DOMAIN intents
     /\ intents[orders[i].payment_id] = c}

C29_CompleteHasOrder ==
  \A c \in Customers :
    checkout[c].paymentComplete
    => \E i \in DOMAIN orders :
         /\ orders[i].row = "live"
         /\ orders[i].payment_id = checkout[c].paid
         /\ orders[i].status = "pending"

\* the default addresses of a user
Defaults(userId) ==
  {i \in DOMAIN addresses :
     addresses[i].user_id = userId /\ addresses[i].is_default}

\* C30: whatever saveShippingAddress and updateShippingAddress calls have
\* run, one after the other or side by side, no user has two addresses
\* with is_default = true.
C30_OneDefaultAddress ==
  \A u \in Users : Cardinality(Defaults(u)) <= 1

====
